---- MODULE Spec2Model ----
(***************************************************************************)
(* Model of app.py, the Streamlit "Search Visibility Agent".               *)
(*                                                                         *)
(* Streamlit executes the whole script top to bottom on the first page     *)
(* load and again on every widget interaction; st.session_state is the     *)
(* only script-level state that survives from one execution to the next.   *)
(* Python strings are TLA+ strings; Len, SubSeq and \o act on them as on   *)
(* sequences of characters.                                                *)
(***************************************************************************)
EXTENDS Integers, Sequences, FiniteSets, TLC

VARIABLES
    hasKey,             \* "OPENAI_API_KEY" in st.secrets
    api_key,            \* openai.api_key
    inputs,             \* the five widgets: brand, products, category, competitors, num_queries
    button,             \* value of st.button in the current execution
    pc,                 \* position of the script
    execs,              \* script executions started so far
    run,                \* the current execution's pipeline run: none, blocked, started, aborted, completed
    shown,              \* messages the current execution has displayed
    queries,            \* variable queries of the script
    responses,          \* list responses of run_queries
    progress,           \* <<i + 1, len(queries)>> last given to the progress bar
    data,               \* list data of analyze
    inflight,           \* external calls issued and not yet returned
    reqLog,             \* queries of the completion requests of the current run, in order of issue
    outcomeLog,         \* what each of those requests returned or raised
    classifyLog,        \* classifier calls of the current run, in order of issue
    labelLog,           \* what each of those calls returned or raised
    sentiment_analyzer, \* the classifier instance bound to the global name
    constructions,      \* number of pipeline("sentiment-analysis") calls so far
    session_state,      \* st.session_state, a function of its keys
    holderAtStart,      \* value of session_state when the current execution started
    csv,                \* lines of the file results.csv
    report,             \* what the results section has rendered in the current execution
    faults              \* external calls (completion, classifier, file write) that have failed so far

vars == <<hasKey, api_key, inputs, button, pc, execs, run, shown, queries,
          responses, progress, data, inflight, reqLog, outcomeLog,
          classifyLog, labelLog,
          sentiment_analyzer, constructions, session_state, holderAtStart, csv,
          report, faults>>

----------------------------------------------------------------------------
(* Bounds of the model *)

MaxExecs == 3
MaxFaults == 1

(* Program constants *)

MinQueries == 10
MaxQueries == 100
DefaultQueries == 20
SentimentChars == 512
HeadRows == 100

Empty == [k \in {} |-> k]
NoClassifier == 0

----------------------------------------------------------------------------
(* Python string operations *)

Min(a, b) == IF a < b THEN a ELSE b

\* s[a-1:b], the characters a..b of s that exist
Slice(s, a, b) == IF a > Min(b, Len(s)) THEN "" ELSE SubSeq(s, a, Min(b, Len(s)))

Char(s, i) == SubSeq(s, i, i)

Digits == "0123456789"

\* str(i) for a non-negative int
RECURSIVE Str(_)
Str(i) ==
    IF i < 10 THEN Char(Digits, i + 1)
    ELSE Str(i \div 10) \o Char(Digits, (i % 10) + 1)

\* s.split(',')[0]: the text before the first comma, the whole of s when it has none
SplitFirst(s) ==
    LET commas == {i \in 1..Len(s) : Char(s, i) = ","}
    IN  IF commas = {} THEN s
        ELSE SubSeq(s, 1, (CHOOSE i \in commas : \A j \in commas : i <= j) - 1)

UpperCase == "ABCDEFGHIJKLMNOPQRSTUVWXYZ"
LowerCase == "abcdefghijklmnopqrstuvwxyz"

UpperLetters == {Char(UpperCase, i) : i \in 1..Len(UpperCase)}
LowerOf == [c \in UpperLetters |->
               Char(LowerCase, CHOOSE i \in 1..Len(UpperCase) : Char(UpperCase, i) = c)]

LowerChar(c) == IF c \in UpperLetters THEN LowerOf[c] ELSE c

\* s.lower()
RECURSIVE Lower(_)
Lower(s) ==
    IF s = "" THEN ""
    ELSE LowerChar(Char(s, 1)) \o Lower(Slice(s, 2, Len(s)))

\* a in b
Contains(a, b) ==
    \E i \in 1..(Len(b) - Len(a) + 1) : SubSeq(b, i, i + Len(a) - 1) = a

----------------------------------------------------------------------------
(* generate_queries *)

base(brand, products, category, competitors) ==
    << "best " \o category \o " brands",
       brand \o " " \o category \o " reviews",
       "is " \o brand \o " " \o SplitFirst(products) \o " safe",
       brand \o " vs " \o (IF competitors # "" THEN SplitFirst(competitors) ELSE "competitors"),
       "eco friendly " \o category \o " options" >>

\* for i in range(first, stop) for q in b: f"{q} ({i})"
RECURSIVE Comprehension(_, _, _)
Comprehension(b, i, stop) ==
    IF i >= stop THEN << >>
    ELSE [j \in 1..Len(b) |-> b[j] \o " (" \o Str(i) \o ")"] \o Comprehension(b, i + 1, stop)

generate_queries_short(brand, products, category, competitors, n) ==
    LET all == Comprehension(base(brand, products, category, competitors), 0, n \div 5)
    IN  SubSeq(all, 1, IF n < Len(all) THEN n ELSE Len(all))

generate_queries_from_one(brand, products, category, competitors, n) ==
    LET all == Comprehension(base(brand, products, category, competitors), 1, n \div 5 + 2)
    IN  SubSeq(all, 1, IF n < Len(all) THEN n ELSE Len(all))

generate_queries(brand, products, category, competitors, n) ==
    LET all == Comprehension(base(brand, products, category, competitors), 0, n \div 5 + 1)
    IN  SubSeq(all, 1, IF n < Len(all) THEN n ELSE Len(all))

----------------------------------------------------------------------------
(* analyze: the derivation of one row *)

\* r[:k]
Prefix(r, k) == SubSeq(r, 1, Min(k, Len(r)))

IsSpace(c) == c \in {" ", "\t", "\n", "\r"}

\* the index of the first character (0 when there is none) that follows a
\* match of "https?://" starting at p and is not white space
UrlBodyStart(r, p) ==
    LET afterScheme ==
            IF Slice(r, p, p + 3) # "http" THEN 0
            ELSE IF Slice(r, p + 4, p + 7) = "s://" THEN p + 8
            ELSE IF Slice(r, p + 4, p + 6) = "://" THEN p + 7
            ELSE 0
    IN  IF afterScheme = 0 \/ afterScheme > Len(r) \/ IsSpace(Char(r, afterScheme))
        THEN 0 ELSE afterScheme

\* the last index of the run of non-space characters that starts at p
RECURSIVE NonSpaceEnd(_, _)
NonSpaceEnd(r, p) ==
    IF p < Len(r) /\ ~IsSpace(Char(r, p + 1)) THEN NonSpaceEnd(r, p + 1) ELSE p

\* re.findall(r'https?://\S+', r), scanning from index p
RECURSIVE FindUrls(_, _)
FindUrls(r, p) ==
    IF p > Len(r) THEN << >>
    ELSE IF UrlBodyStart(r, p) = 0 THEN FindUrls(r, p + 1)
    ELSE LET e == NonSpaceEnd(r, UrlBodyStart(r, p))
         IN  <<SubSeq(r, p, e)>> \o FindUrls(r, e + 1)

\* sep.join(items)
RECURSIVE Join(_, _)
Join(sep, items) ==
    IF items = << >> THEN ""
    ELSE IF Len(items) = 1 THEN items[1]
    ELSE items[1] \o sep \o Join(sep, Tail(items))

\* brand.lower() in r.lower()
Visible(brand, r) == Contains(Lower(brand), Lower(r))

\* Row with a case-sensitive brand test
Row_case_sensitive(q, r, brand, label) ==
    [query |-> q,
     visible |-> Contains(brand, r),
     sentiment |-> label,
     urls |-> Join(";", FindUrls(r, 1))]

Row(q, r, brand, label) ==
    [query |-> q,
     visible |-> Visible(brand, r),
     sentiment |-> label,
     urls |-> Join(";", FindUrls(r, 1))]

----------------------------------------------------------------------------
(* The results section *)

\* df["visible"].sum()
CountVisible(df) == Cardinality({i \in 1..Len(df) : df[i].visible})

\* df["sentiment"].value_counts()["POSITIVE"]
CountPositive(df) == Cardinality({i \in 1..Len(df) : df[i].sentiment = "POSITIVE"})

\* pandas' to_csv quoting of one field
RECURSIVE DoubleQuotes(_)
DoubleQuotes(s) ==
    IF s = "" THEN ""
    ELSE (IF Char(s, 1) = "\"" THEN "\"\"" ELSE Char(s, 1)) \o DoubleQuotes(Slice(s, 2, Len(s)))

CsvField(s) ==
    IF \E i \in 1..Len(s) : Char(s, i) \in {",", "\"", "\n", "\r"}
    THEN "\"" \o DoubleQuotes(s) \o "\"" ELSE s

\* df.to_csv(index=False), as a sequence of lines
to_csv(df) ==
    <<"query,visible,sentiment,urls">>
    \o [i \in 1..Len(df) |->
            CsvField(df[i].query) \o "," \o (IF df[i].visible THEN "True" ELSE "False")
            \o "," \o CsvField(df[i].sentiment) \o "," \o CsvField(df[i].urls)]

\* what the results section renders; a fraction is a pair <<numerator, denominator>>,
\* the "Positive Mentions" metric is a sequence of zero or one fraction
Report(df) ==
    [visibility_rate |-> <<CountVisible(df), Len(df)>>,
     positive |-> IF CountPositive(df) > 0
                  THEN << <<CountPositive(df), Len(df)>> >> ELSE << >>,
     table_rows |-> Len(Prefix(df, HeadRows)),
     download_lines |-> Len(to_csv(df))]

----------------------------------------------------------------------------
(* The environment: widget values and the external services *)

DefaultInputs ==
    [brand |-> "Glade", products |-> "Glade Plug-Ins, Glade Candles",
     category |-> "Air Care", competitors |-> "Febreze, Air Wick",
     num_queries |-> DefaultQueries]

\* the widget settings a user moves between in the session model
InputChoices ==
    {DefaultInputs,
     [brand |-> "Acme", products |-> "", category |-> "Widgets",
      competitors |-> "", num_queries |-> MinQueries]}

\* the widget settings the query generator is exercised on
Brands == {"Glade", "Acme", ""}
ProductLists == {"Glade Plug-Ins, Glade Candles", "Acme Widget", ""}
Categories == {"Air Care", "Widgets", ""}
CompetitorLists == {"Febreze, Air Wick", "Contoso", ""}
GeneratorInputs ==
    [brand : Brands, products : ProductLists, category : Categories,
     competitors : CompetitorLists, num_queries : MinQueries..MaxQueries]

\* outcomes of openai.chat.completions.create: a text, or an exception with a description
TypicalReply == "Try GLADE https://glade.com or http://x.org/a now"
FaultDescriptions == {"Connection error."}

Outcomes(f) ==
    {[ok |-> TRUE, text |-> TypicalReply]}
    \cup (IF f < MaxFaults THEN [ok : {FALSE}, text : FaultDescriptions] ELSE {})

\* outcomes of sentiment_analyzer(text): the label the pre-trained model gives
\* the text, which is a function of the text, or an exception
Sentiment(text) == IF Slice(text, 1, 6) = "Error:" THEN "NEGATIVE" ELSE "POSITIVE"
Raised == "raised"


----------------------------------------------------------------------------
(* The state before the first execution of the script *)

Init ==
    /\ hasKey \in BOOLEAN
    /\ api_key = FALSE
    /\ inputs = DefaultInputs
    /\ button = FALSE
    /\ pc = "idle"
    /\ execs = 0
    /\ run = "none"
    /\ shown = {}
    /\ queries = << >>
    /\ responses = << >>
    /\ progress = <<0, 1>>
    /\ data = << >>
    /\ inflight = {}
    /\ reqLog = << >>
    /\ outcomeLog = << >>
    /\ classifyLog = << >>
    /\ labelLog = << >>
    /\ sentiment_analyzer = NoClassifier
    /\ constructions = 0
    /\ session_state = Empty
    /\ holderAtStart = Empty
    /\ csv = << >>
    /\ report = << >>
    /\ faults = 0

\* the names of the script that hold a value across steps of one execution
locals == <<queries, responses, progress, data, reqLog, outcomeLog, classifyLog, labelLog>>
\* what only the environment or a new execution changes
session == <<hasKey, inputs, button, execs, holderAtStart>>

\* Streamlit starts an execution of the script in a fresh namespace
Start(b) ==
    /\ pc = "idle"
    /\ execs < MaxExecs
    /\ execs' = execs + 1
    /\ button' = b
    /\ pc' = "secrets"
    /\ run' = "none"
    /\ shown' = {}
    /\ queries' = << >>
    /\ responses' = << >>
    /\ progress' = <<0, 1>>
    /\ data' = << >>
    /\ reqLog' = << >>
    /\ outcomeLog' = << >>
    /\ classifyLog' = << >>
    /\ labelLog' = << >>
    /\ report' = << >>
    /\ holderAtStart' = session_state
    /\ UNCHANGED <<hasKey, api_key, inflight, sentiment_analyzer, constructions,
                   session_state, csv, faults>>

PageLoad ==
    /\ execs = 0
    /\ Start(FALSE)
    /\ UNCHANGED inputs

InputChange ==
    /\ execs > 0
    /\ \E v \in InputChoices \ {inputs} : inputs' = v
    /\ Start(FALSE)

RunTrigger ==
    /\ execs > 0
    /\ Start(TRUE)
    /\ UNCHANGED inputs

----------------------------------------------------------------------------
(* The script, top to bottom *)

SecretsCheck ==
    /\ pc = "secrets"
    /\ IF ~hasKey
       THEN shown' = shown \cup {"warning"} /\ UNCHANGED api_key
       ELSE api_key' = TRUE /\ UNCHANGED shown
    /\ pc' = "classifier"
    /\ UNCHANGED <<session, locals, run, inflight, sentiment_analyzer, constructions,
                   session_state, csv, report, faults>>

LoadClassifier ==
    /\ pc = "classifier"
    /\ constructions' = constructions + 1
    /\ sentiment_analyzer' = constructions + 1
    /\ pc' = "button"
    /\ UNCHANGED <<session, locals, api_key, run, shown, inflight, session_state, csv,
                   report, faults>>

\* ButtonBranch without the test of line 93
ButtonBranch_unchecked ==
    /\ pc = "button"
    /\ IF ~button
       THEN pc' = "results" /\ UNCHANGED <<run, shown>>
       ELSE pc' = "generate" /\ run' = "started" /\ UNCHANGED shown
    /\ UNCHANGED <<session, locals, api_key, inflight, sentiment_analyzer, constructions,
                   session_state, csv, report, faults>>

ButtonBranch ==
    /\ pc = "button"
    /\ IF ~button
       THEN pc' = "results" /\ UNCHANGED <<run, shown>>
       ELSE IF ~hasKey
            THEN pc' = "results" /\ run' = "blocked" /\ shown' = shown \cup {"error"}
            ELSE pc' = "generate" /\ run' = "started" /\ UNCHANGED shown
    /\ UNCHANGED <<session, locals, api_key, inflight, sentiment_analyzer, constructions,
                   session_state, csv, report, faults>>

Generate ==
    /\ pc = "generate"
    /\ queries' = generate_queries(inputs.brand, inputs.products, inputs.category,
                                   inputs.competitors, inputs.num_queries)
    /\ pc' = "fetch"
    /\ UNCHANGED <<session, api_key, run, shown, responses, progress, data, inflight,
                   reqLog, outcomeLog, classifyLog, labelLog, sentiment_analyzer,
                   constructions, session_state, csv, report, faults>>

\* the loop of run_queries takes query i and sends the request
FetchIssue ==
    /\ pc = "fetch"
    /\ Len(responses) < Len(queries)
    /\ LET i == Len(responses) + 1
       IN  /\ reqLog' = Append(reqLog, queries[i])
           /\ inflight' = inflight \cup {<<"fetch", i>>}
    /\ pc' = "fetch_wait"
    /\ UNCHANGED <<session, api_key, run, shown, queries, responses, progress, data,
                   outcomeLog, classifyLog, labelLog, sentiment_analyzer, constructions,
                   session_state, csv, report, faults>>

\* FetchReceive that inserts the text at the front of the list
FetchReceive_prepend ==
    /\ pc = "fetch_wait"
    /\ \E o \in Outcomes(faults) :
          LET text == IF o.ok THEN o.text ELSE "Error: " \o o.text
          IN  /\ outcomeLog' = Append(outcomeLog, o)
              /\ responses' = <<text>> \o responses
              /\ progress' = <<Len(responses) + 1, Len(queries)>>
              /\ faults' = IF o.ok THEN faults ELSE faults + 1
    /\ inflight' = inflight \ {<<"fetch", Len(responses) + 1>>}
    /\ pc' = "fetch"
    /\ UNCHANGED <<session, api_key, run, shown, queries, data, reqLog, classifyLog,
                   labelLog, sentiment_analyzer, constructions, session_state, csv,
                   report>>

\* FetchReceive whose exception handler leaves the loop
FetchReceive_break ==
    /\ pc = "fetch_wait"
    /\ \E o \in Outcomes(faults) :
          LET text == IF o.ok THEN o.text ELSE "Error: " \o o.text
          IN  /\ outcomeLog' = Append(outcomeLog, o)
              /\ responses' = Append(responses, text)
              /\ progress' = <<Len(responses) + 1, Len(queries)>>
              /\ faults' = IF o.ok THEN faults ELSE faults + 1
              /\ pc' = IF o.ok THEN "fetch" ELSE "analyze"
    /\ inflight' = inflight \ {<<"fetch", Len(responses) + 1>>}
    /\ UNCHANGED <<session, api_key, run, shown, queries, data, reqLog, classifyLog,
                   labelLog, sentiment_analyzer, constructions, session_state, csv,
                   report>>

\* the request returns or raises; the text is appended and the progress bar moved
FetchReceive ==
    /\ pc = "fetch_wait"
    /\ \E o \in Outcomes(faults) :
          LET text == IF o.ok THEN o.text ELSE "Error: " \o o.text
          IN  /\ outcomeLog' = Append(outcomeLog, o)
              /\ responses' = Append(responses, text)
              /\ progress' = <<Len(responses) + 1, Len(queries)>>
              /\ faults' = IF o.ok THEN faults ELSE faults + 1
    /\ inflight' = inflight \ {<<"fetch", Len(responses) + 1>>}
    /\ pc' = "fetch"
    /\ UNCHANGED <<session, api_key, run, shown, queries, data, reqLog, classifyLog,
                   labelLog, sentiment_analyzer, constructions, session_state, csv,
                   report>>

\* FetchReturn that does not wait for the loop to be exhausted
FetchReturn_early ==
    /\ pc = "fetch"
    /\ Len(responses) >= 1
    /\ pc' = "analyze"
    /\ UNCHANGED <<session, locals, api_key, run, shown, inflight, sentiment_analyzer,
                   constructions, session_state, csv, report, faults>>

\* the loop of run_queries is exhausted: return responses
FetchReturn ==
    /\ pc = "fetch"
    /\ Len(responses) >= Len(queries)
    /\ pc' = "analyze"
    /\ UNCHANGED <<session, locals, api_key, run, shown, inflight, sentiment_analyzer,
                   constructions, session_state, csv, report, faults>>

\* the pairs zip(queries, responses) yields
Pairs == Min(Len(queries), Len(responses))

\* the loop of analyze takes pair j and calls the classifier on the answer's first characters
AnalyzeCall ==
    /\ pc = "analyze"
    /\ Len(data) < Pairs
    /\ LET j == Len(data) + 1
       IN  /\ classifyLog' = Append(classifyLog,
                                    [text |-> Prefix(responses[j], SentimentChars),
                                     instance |-> sentiment_analyzer])
           /\ inflight' = inflight \cup {<<"classify", j>>}
    /\ pc' = "classify_wait"
    /\ UNCHANGED <<session, api_key, run, shown, queries, responses, progress, data,
                   reqLog, outcomeLog, labelLog, sentiment_analyzer, constructions,
                   session_state, csv, report, faults>>

\* the classifier returns a label and the row is appended, or it raises and
\* the exception ends the execution
AnalyzeReturn ==
    /\ pc = "classify_wait"
    /\ LET j == Len(data) + 1
       IN  /\ inflight' = inflight \ {<<"classify", j>>}
           /\ \/ LET label == Sentiment(classifyLog[j].text)
                 IN  /\ labelLog' = Append(labelLog, label)
                     /\ data' = Append(data, Row(queries[j], responses[j], inputs.brand, label))
                     /\ pc' = "analyze"
                     /\ UNCHANGED <<run, faults>>
              \/ /\ faults < MaxFaults
                 /\ faults' = faults + 1
                 /\ labelLog' = Append(labelLog, Raised)
                 /\ run' = "aborted"
                 /\ pc' = "idle"
                 /\ UNCHANGED data
    /\ UNCHANGED <<session, api_key, shown, queries, responses, progress, reqLog,
                   outcomeLog, classifyLog, sentiment_analyzer, constructions,
                   session_state, csv, report>>

\* Store that writes the holder while rows are still missing
Store_partial ==
    /\ pc = "analyze"
    /\ Len(data) >= 1
    /\ session_state' = [k \in DOMAIN session_state \cup {"results"} |->
                            IF k = "results" THEN data ELSE session_state[k]]
    /\ pc' = "to_csv"
    /\ UNCHANGED <<session, locals, api_key, run, shown, inflight, sentiment_analyzer,
                   constructions, csv, report, faults>>

\* the loop of analyze is exhausted: the frame is returned and stored
Store ==
    /\ pc = "analyze"
    /\ Len(data) >= Pairs
    /\ session_state' = [k \in DOMAIN session_state \cup {"results"} |->
                            IF k = "results" THEN data ELSE session_state[k]]
    /\ pc' = "to_csv"
    /\ UNCHANGED <<session, locals, api_key, run, shown, inflight, sentiment_analyzer,
                   constructions, csv, report, faults>>

\* results.csv is written and success shown, or the write raises and the
\* exception ends the execution
WriteCsv ==
    /\ pc = "to_csv"
    /\ \/ /\ csv' = to_csv(session_state["results"])
          /\ shown' = shown \cup {"success"}
          /\ pc' = "results"
          /\ UNCHANGED <<run, faults>>
       \/ /\ faults < MaxFaults
          /\ faults' = faults + 1
          /\ run' = "aborted"
          /\ pc' = "idle"
          /\ UNCHANGED <<csv, shown>>
    /\ UNCHANGED <<session, locals, api_key, inflight, sentiment_analyzer, constructions,
                   session_state, report>>

\* the results section, then the end of the script
Results ==
    /\ pc = "results"
    /\ report' = IF "results" \in DOMAIN session_state
                 THEN <<Report(session_state["results"])>> ELSE << >>
    /\ run' = IF run = "started" THEN "completed" ELSE run
    /\ pc' = "idle"
    /\ UNCHANGED <<session, locals, api_key, shown, inflight, sentiment_analyzer,
                   constructions, session_state, csv, faults>>

Next ==
    \/ PageLoad
    \/ InputChange
    \/ RunTrigger
    \/ SecretsCheck
    \/ LoadClassifier
    \/ ButtonBranch
    \/ Generate
    \/ FetchIssue
    \/ FetchReceive
    \/ FetchReturn
    \/ AnalyzeCall
    \/ AnalyzeReturn
    \/ Store
    \/ WriteCsv
    \/ Results

Spec == Init /\ [][Next]_vars

----------------------------------------------------------------------------
(* The query generator on its own, over the whole range of the slider: the
   script stands at line 97 with the key present and the button pressed *)

InitGen ==
    /\ hasKey = TRUE
    /\ api_key = TRUE
    /\ inputs \in GeneratorInputs
    /\ button = TRUE
    /\ pc = "generate"
    /\ execs = 1
    /\ run = "started"
    /\ shown = {}
    /\ queries = << >>
    /\ responses = << >>
    /\ progress = <<0, 1>>
    /\ data = << >>
    /\ inflight = {}
    /\ reqLog = << >>
    /\ outcomeLog = << >>
    /\ classifyLog = << >>
    /\ labelLog = << >>
    /\ sentiment_analyzer = 1
    /\ constructions = 1
    /\ session_state = Empty
    /\ holderAtStart = Empty
    /\ csv = << >>
    /\ report = << >>
    /\ faults = 0

NextGen == Generate

SpecGen == InitGen /\ [][NextGen]_vars

----------------------------------------------------------------------------
(* Stages of a run, as state predicates *)

\* the current execution has started the pipeline
RunStarted == run \in {"started", "aborted", "completed"}

\* generate_queries has returned
Generated == RunStarted /\ pc # "generate"

\* run_queries has returned
FetchReturned == Generated /\ pc \notin {"fetch", "fetch_wait"}

\* the run was aborted by the classifier, before line 104
AbortedInAnalysis ==
    run = "aborted" /\ labelLog # << >> /\ labelLog[Len(labelLog)] = Raised

\* line 104 has been executed
Stored ==
    \/ run = "started" /\ pc \in {"to_csv", "results"}
    \/ run = "completed"
    \/ run = "aborted" /\ ~AbortedInAnalysis

\* the execution has ended
Ended == pc = "idle" /\ execs > 0

\* the answer run_queries makes of an outcome of the completion service
AnswerOf(o) == IF o.ok THEN o.text ELSE "Error: " \o o.text

----------------------------------------------------------------------------
(* Claims *)

\* C1: for every count N of the slider's range and every choice of the four
\* strings, empty ones included, generate_queries returns exactly N queries.
C1_ExactlyN == Generated => Len(queries) = inputs.num_queries

C1_Witness ==
    /\ Generated
    /\ inputs.num_queries = MaxQueries
    /\ inputs.brand = "" /\ inputs.products = "" /\ inputs.competitors = ""
    /\ Len(queries) = MaxQueries

\* the five templates in the order category-brands, brand-reviews,
\* product-safety, brand-vs-competitor, eco-friendly, numbered from 0
C2_Template(j) ==
    CASE j = 0 -> "best " \o inputs.category \o " brands"
      [] j = 1 -> inputs.brand \o " " \o inputs.category \o " reviews"
      [] j = 2 -> "is " \o inputs.brand \o " " \o SplitFirst(inputs.products) \o " safe"
      [] j = 3 -> inputs.brand \o " vs "
                  \o (IF inputs.competitors = "" THEN "competitors"
                      ELSE SplitFirst(inputs.competitors))
      [] j = 4 -> "eco friendly " \o inputs.category \o " options"

\* C2: the query at position k (0-based) is the (k mod 5)-th of the five
\* templates category-brands, brand-reviews, product-safety,
\* brand-vs-competitor, eco-friendly, followed by " (k div 5)"; the sequence
\* is a function of the five inputs alone.
C2_PositionK ==
    Generated =>
        \A k \in 0..(inputs.num_queries - 1) :
            /\ k + 1 \in DOMAIN queries
            /\ queries[k + 1] = C2_Template(k % 5) \o " (" \o Str(k \div 5) \o ")"

C2_Witness ==
    /\ Generated
    /\ inputs = [brand |-> "Acme", products |-> "Acme Widget", category |-> "Widgets",
                 competitors |-> "Contoso", num_queries |-> 13]
    /\ queries[1] = "best Widgets brands (0)"
    /\ queries[3] = "is Acme Acme Widget safe (0)"
    /\ queries[4] = "Acme vs Contoso (0)"
    /\ queries[10] = "eco friendly Widgets options (1)"
    /\ queries[13] = "is Acme Acme Widget safe (2)"

\* C3: run_queries issues one request per query, in index order; the answer
\* at index i is the result (text or error placeholder) of the request made
\* for query i; what it returns is as long as its input.
C3_AnswersAligned ==
    /\ Len(outcomeLog) = Len(responses)
    /\ Len(reqLog) = Len(responses) + (IF pc = "fetch_wait" THEN 1 ELSE 0)
    /\ \A i \in 1..Len(reqLog) : i <= Len(queries) /\ reqLog[i] = queries[i]
    /\ \A i \in 1..Len(responses) : responses[i] = AnswerOf(outcomeLog[i])
    /\ FetchReturned => Len(responses) = Len(queries)

C3_Witness ==
    /\ FetchReturned
    /\ Len(responses) = Len(queries)
    /\ \E i, j \in 1..Len(responses) :
          /\ i < j
          /\ ~outcomeLog[i].ok /\ outcomeLog[j].ok
          /\ responses[i] # responses[j]

\* C4: when the request for query i fails, the answer at index i is "Error: "
\* followed by the fault's description, the loop goes on to query i+1, the
\* answers at the other indices are the texts their own requests returned,
\* and no row is dropped.
C4_FaultIsolated ==
    \A i \in 1..Len(outcomeLog) :
        ~outcomeLog[i].ok =>
            /\ i <= Len(responses)
            /\ responses[i] = "Error: " \o outcomeLog[i].text
            /\ i < Len(queries) => (Len(reqLog) > i \/ (pc = "fetch" /\ Len(responses) = i))
            /\ \A j \in (1..Len(responses)) \ {i} :
                  outcomeLog[j].ok => responses[j] = outcomeLog[j].text
            /\ FetchReturned => Len(responses) = Len(queries)

C4_Witness ==
    /\ FetchReturned
    /\ \E i \in 1..(Len(queries) - 1) :
          /\ ~outcomeLog[i].ok
          /\ responses[i] = "Error: Connection error."
          /\ outcomeLog[i + 1].ok
          /\ responses[i + 1] = TypicalReply

\* C5: with the API key absent, pressing the button starts no pipeline: no
\* query is generated, no request issued, no row analyzed, nothing stored,
\* and the message about the missing key is shown.
C5_BlockedWithoutKey ==
    ~hasKey =>
        /\ ~RunStarted
        /\ queries = << >> /\ reqLog = << >> /\ classifyLog = << >> /\ data = << >>
        /\ inflight = {}
        /\ session_state = holderAtStart /\ session_state = Empty /\ csv = << >>
        /\ (button /\ (pc = "results" \/ Ended)) => (run = "blocked" /\ "error" \in shown)

C5_Witness ==
    /\ ~hasKey /\ button /\ Ended
    /\ run = "blocked"
    /\ "error" \in shown

\* C6: in every run that starts, every generated query gets an answer or an
\* error placeholder and is analyzed into a row, whether a fetch or a
\* sentiment classification fails.
C6_EveryRowAnalyzed ==
    (Ended /\ RunStarted) =>
        /\ Len(queries) = inputs.num_queries
        /\ Len(responses) = Len(queries)
        /\ Len(data) = Len(queries)

\* C7: after a run has stored its result, the ResultSet has exactly N rows,
\* and row i carries query i with the visibility, sentiment and urls derived
\* from answer i.
C7_ResultSet ==
    (Stored /\ run # "aborted") =>
        /\ "results" \in DOMAIN session_state
        /\ LET df == session_state["results"]
           IN  /\ Len(df) = inputs.num_queries
               /\ \A i \in 1..Len(df) :
                     /\ df[i].query = queries[i]
                     /\ df[i].visible = Visible(inputs.brand, responses[i])
                     /\ classifyLog[i].text = Prefix(responses[i], SentimentChars)
                     /\ df[i].sentiment = labelLog[i]
                     /\ df[i].urls = Join(";", FindUrls(responses[i], 1))

C7_Witness ==
    /\ run = "completed"
    /\ Len(session_state["results"]) = DefaultQueries
    /\ \E i, j \in 1..DefaultQueries :
          /\ session_state["results"][i].visible
          /\ session_state["results"][i].urls = "https://glade.com;http://x.org/a"
          /\ ~session_state["results"][j].visible
          /\ session_state["results"][j].urls = ""

\* C8: the first request is issued only after all N queries exist, the first
\* answer is analyzed only after the request for the last query has
\* completed, the results section of a run reads the holder only after the
\* last row is analyzed, and at most one fetch or classify call is in
\* progress at any time.
C8_StagesInOrder ==
    /\ reqLog # << >> => Len(queries) = inputs.num_queries
    /\ classifyLog # << >> =>
          /\ Len(outcomeLog) = Len(queries)
          /\ Len(responses) = Len(queries)
          /\ \A i \in 1..Len(queries) : <<"fetch", i>> \notin inflight
    /\ (RunStarted /\ (pc = "results" \/ report # << >>)) =>
          /\ Len(data) = Len(queries)
          /\ Len(labelLog) = Len(queries)
          /\ inflight = {}
    /\ Cardinality(inflight) <= 1
    /\ inflight # {} <=> pc \in {"fetch_wait", "classify_wait"}

C8_Witness ==
    /\ run = "completed"
    /\ report # << >>
    /\ Len(reqLog) = inputs.num_queries
    /\ Len(classifyLog) = inputs.num_queries

\* C9: over any sequence of script executions the classifier is constructed
\* at most once, and every analyze call uses that one instance.
C9_ClassifierOnce ==
    /\ constructions <= 1
    /\ \A i \in 1..Len(classifyLog) : classifyLog[i].instance = 1

\* C10 as claimed: the holder is absent or complete, is written only after
\* the analysis of all rows, and a run that is blocked or aborted by an
\* exception leaves it as it was before that run.
C10_HolderUntouchedByAbort ==
    /\ "results" \in DOMAIN session_state =>
          Len(session_state["results"]) \in MinQueries..MaxQueries
    /\ (RunStarted /\ ~Stored) => session_state = holderAtStart
    /\ run \in {"blocked", "aborted"} => session_state = holderAtStart

\* C10 as amended: the holder is absent or complete and is written only after
\* the analysis of all rows; a run that is blocked, or aborted by an exception
\* raised before the store of line 104, leaves it as it was before that run;
\* a run aborted by the file write that follows the store leaves in it the
\* complete ResultSet of that run.
C10_HolderWrittenAtStore ==
    /\ "results" \in DOMAIN session_state =>
          Len(session_state["results"]) \in MinQueries..MaxQueries
    /\ (run \in {"none", "blocked"} \/ (RunStarted /\ ~Stored) \/ AbortedInAnalysis) =>
          session_state = holderAtStart
    /\ Stored =>
          /\ ~AbortedInAnalysis
          /\ Len(data) = inputs.num_queries
          /\ session_state = [results |-> data]

C10_Witness ==
    /\ Ended
    /\ AbortedInAnalysis
    /\ data # << >>
    /\ holderAtStart # Empty
    /\ session_state = holderAtStart

====
